---- MODULE Spec2Model ----
(***************************************************************************)
(* State-machine model of yfpy/query.py (class YahooFantasySportsQuery):   *)
(*   - get_response : fetch, classification of the response, retry with    *)
(*                    incremental back-off (specification Spec);           *)
(*   - query        : key-path navigation of the decoded response          *)
(*                    (specification SpecQuery);                           *)
(*   - get_league_players : windowed pagination with per-item fallback     *)
(*                    (specification SpecPlayers).                         *)
(***************************************************************************)
EXTENDS Integers, Sequences, FiniteSets, TLC

VARIABLES
    cfg_retries,    \* constructor argument retries
    cfg_backoff,    \* constructor argument backoff
    retries,        \* self._retries
    backoff,        \* self._backoff
    pc,             \* position of get_response: "idle", "retrying", "returned", "raised"
    err,            \* exception raised by the last call of get_response
    url,            \* argument url of the current call of get_response
    fetched,        \* URLs fetched by the current call, in order
    resps,          \* responses received by the current call, in order
    auths,          \* calls of _authenticate made by the current call
    sleeps,         \* back-off multipliers slept by the current call, in order
    budget0,        \* self._retries when the current call started
    retry_fetches,  \* fetches made by the retry branch since construction
    q_pc,           \* position of query: "call", "done"
    q_url,          \* response.url of the response query works on
    q_doc,          \* the "fantasy_content" value of that response
    q_path,         \* argument data_key_list
    q_sort,         \* argument sort_function is given
    q_exc,          \* exception raised by query ("none" when it went on)
    q_raw,          \* raw_response_data after the key-path loop
    q_payload,      \* payload of the exception raised
    q_err_url,      \* url of the exception raised
    q_result,       \* value returned by query
    q_response,     \* the last response get_response received for query
    q_fetches,      \* calls of get_response made by query
    executed_queries,    \* self.executed_queries
    p_total,        \* number of players the upstream collection holds
    p_pc,           \* position of get_league_players: "idle", "loop", "fallback",
                    \* "returned", "raised"
    player_count_limit,        \* argument player_count_limit
    player_count_start,        \* argument player_count_start
    league_player_count,        \* league_player_count
    league_player_data,         \* league_player_data (player identifiers)
    p_out,          \* outcome of the last window query
    player_retrieval_successes,    \* player_retrieval_successes of the last fallback
    player_retrieval_failures,     \* player_retrieval_failures of the last fallback
    p_fbstart,      \* league_player_count when the last fallback started
    p_fbouts,       \* outcomes of the single-item retrievals of the last fallback
    p_reliable,     \* the upstream serves every request without failure
    p_broken,       \* the upstream fails every request (DataNotFound, no payload)
    p_nfallbacks,   \* fallbacks run by the current call
    p_nfailures,    \* requests of the current call the upstream failed to serve
    p_exc,          \* exception raised by the current call
    p_hist,         \* results of earlier calls served without failure
    league_key,     \* self.league_key
    game_id,        \* self.game_id
    all_output_as_json_str,    \* self.all_output_as_json_str
    offline,        \* self.offline
    init_auths,     \* calls of _authenticate made by the constructor
    l_ncalls,       \* operations called on the object so far
    l_op,           \* the last operation called
    l_season,       \* its argument season
    l_team,         \* its argument team_id
    l_limit,        \* its argument limit_to_league_stats
    l_exc,          \* the exception it raised ("none" when it returned)
    l_key,          \* the league key it obtained from get_league_key
    l_game,         \* the game key it returned (0 when it returned none)
    l_queries,      \* the calls of self.query it made, in order
    l_ret,          \* what it returned: "none", "key", "game_key", "object", "json"
    l_cache0,       \* self.league_key when it was called
    l_earlier       \* the key returned by the last get_league_key before it

respVars == <<cfg_retries, cfg_backoff, retries, backoff, pc, err, url, fetched,
              resps, auths, sleeps, budget0, retry_fetches>>

queryVars == <<q_pc, q_url, q_doc, q_path, q_sort, q_exc, q_raw, q_payload,
               q_err_url, q_result, q_response, q_fetches, executed_queries>>

playerVars == <<p_total, p_pc, player_count_limit, player_count_start,
                league_player_count, league_player_data, p_out,
                player_retrieval_successes, player_retrieval_failures, p_fbstart,
                p_fbouts, p_reliable, p_broken, p_nfallbacks, p_nfailures, p_exc, p_hist>>

leagueVars == <<league_key, game_id, all_output_as_json_str, offline, init_auths, l_ncalls,
                l_op, l_season, l_team, l_limit, l_exc, l_key, l_game, l_queries, l_ret,
                l_cache0, l_earlier>>

vars == <<respVars, queryVars, playerVars, leagueVars>>

----------------------------------------------------------------------------
(* Bounds *)

MaxRetries == 3
MaxInitBackoff == 1

MaxPlayers == 27
MaxFailures == 2
MaxOffset == 200
MaxDepth == 1
MaxPathLen == 2
MaxCalls == 3
MaxTeams == 2

Urls == {"u1", "u2"}

----------------------------------------------------------------------------
(* get_response *)

RATE_LIMIT_STATUS == 999
UNAUTHORIZED_STATUS == 401

\* one status of each class the code distinguishes
Statuses == {200, 304, UNAUTHORIZED_STATUS, 500, RATE_LIMIT_STATUS}

\* A response of the fetch capability: its status code, whether its body
\* decodes as JSON, and whether the decoded body has a non-empty "error"
\* field and a non-empty "fantasy_content" field.  A body that does not
\* decode leaves response_json = {}.
Responses ==
    {r \in [status : Statuses, decodes : BOOLEAN, error : BOOLEAN, content : BOOLEAN] :
        ~r.decodes => (~r.error /\ ~r.content)}

\* requests.Response.raise_for_status raises HTTPError for 4xx and 5xx
RaisesForStatus(status) == status >= 400 /\ status < 600

IsRateLimited_m(status) == FALSE
IsRateLimited(status) == status = RATE_LIMIT_STATUS

IsUnauthorized_m(status) == status >= 400
IsUnauthorized(status) == status = UNAUTHORIZED_STATUS

HasErrorPayload_m(r) == r.status = 404 /\ r.error
HasErrorPayload(r) == (r.status \div 100) # 2 /\ r.error

CanRetry_m(budget) == budget > 1
CanRetry(budget) == budget > 0

RetryUrl_m(u) == CHOOSE v \in Urls : v # u
RetryUrl(u) == u

\* what one invocation of get_response does with the response it fetched
Outcome(r, budget) ==
    IF IsRateLimited(r.status) THEN "rate_limited"
    ELSE IF ~r.decodes /\ RaisesForStatus(r.status) THEN "http_error"
    ELSE IF HasErrorPayload(r) THEN "data_not_found"
    ELSE IF RaisesForStatus(r.status)
         THEN IF CanRetry(budget) THEN "retry" ELSE "http_error"
    ELSE IF r.content THEN "return"
    ELSE "data_not_found"

\* the frames that retried check their own response_json after the
\* recursive call returns
FramesHaveContent(rs) == \A i \in DOMAIN rs : rs[i].content

\* self._backoff += 1
NextBackoff_m(b) == b + 2
NextBackoff(b) == b + 1

Handle(u, r, prevFetched, prevResps, prevAuths, prevSleeps) ==
    LET out == Outcome(r, retries) IN
    /\ fetched' = Append(prevFetched, u)
    /\ resps' = Append(prevResps, r)
    /\ auths' = IF IsUnauthorized(r.status) /\ ~IsRateLimited(r.status)
                THEN prevAuths + 1 ELSE prevAuths
    /\ IF out = "retry"
       THEN /\ retries' = retries - 1
            /\ backoff' = NextBackoff(backoff)
            /\ sleeps' = Append(prevSleeps, NextBackoff(backoff))
            /\ pc' = "retrying"
            /\ err' = "none"
       ELSE /\ UNCHANGED <<retries, backoff>>
            /\ sleeps' = prevSleeps
            /\ IF out = "return"
               THEN IF FramesHaveContent(prevResps)
                    THEN pc' = "returned" /\ err' = "none"
                    ELSE pc' = "raised" /\ err' = "data_not_found"
               ELSE pc' = "raised" /\ err' = out

\* a call of get_response(u) by a caller
GetResponse(u, r) ==
    /\ pc # "retrying"
    /\ url' = u
    /\ budget0' = retries
    /\ Handle(u, r, <<>>, <<>>, 0, <<>>)
    /\ UNCHANGED <<cfg_retries, cfg_backoff, retry_fetches>>

\* the recursive call get_response(url) of the retry branch
RetryGetResponse(r) ==
    /\ pc = "retrying"
    /\ Handle(RetryUrl(url), r, fetched, resps, auths, sleeps)
    /\ retry_fetches' = retry_fetches + 1
    /\ UNCHANGED <<cfg_retries, cfg_backoff, url, budget0>>

RespInit ==
    /\ cfg_retries \in 0..MaxRetries
    /\ cfg_backoff \in 0..MaxInitBackoff
    /\ retries = cfg_retries
    /\ backoff = cfg_backoff
    /\ pc = "idle"
    /\ err = "none"
    /\ url = "u1"
    /\ fetched = <<>>
    /\ resps = <<>>
    /\ auths = 0
    /\ sleeps = <<>>
    /\ budget0 = cfg_retries
    /\ retry_fetches = 0

----------------------------------------------------------------------------
(* JSON values *)

\* A decoded JSON value: t is its Python type, n the identity of a scalar,
\* s the entries of a container in order.  An entry of a dict has its key
\* in k; an entry of a list has k = "".
JNull == [t |-> "none", n |-> 0, s |-> <<>>]
JStr(i) == [t |-> "str", n |-> i, s |-> <<>>]
JDict(entries) == [t |-> "dict", n |-> 0, s |-> entries]
JList(entries) == [t |-> "list", n |-> 0, s |-> entries]
Entry(key, val) == [k |-> key, v |-> val]
Item(val) == [k |-> "", v |-> val]

\* Python truth value
Truthy(d) ==
    CASE d.t = "none" -> FALSE
      [] d.t = "str" -> TRUE
      [] OTHER -> Len(d.s) > 0

HasKey(d, key) == \E i \in DOMAIN d.s : d.s[i].k = key

\* d[key] of a dict that has the key
Lookup(d, key) ==
    d.s[CHOOSE i \in DOMAIN d.s :
            d.s[i].k = key /\ \A j \in 1..(i - 1) : d.s[j].k # key].v

RECURSIVE ConcatEntries(_)
ConcatEntries(ss) ==
    IF ss = <<>> THEN <<>> ELSE Head(ss) \o ConcatEntries(Tail(ss))

\* utils.reformat_json_list: the non-empty single-key dicts of a list are
\* combined into one mapping (the first dict that has a key provides it)
ReformatJsonList(d) ==
    JDict(ConcatEntries([i \in DOMAIN d.s |->
                            IF d.s[i].v.t = "dict" THEN d.s[i].v.s ELSE <<>>]))

Keys == {"league", "teams"}

\* a key-path component: <<k>> stands for the string k, <<k1, k2>> for the
\* list [k1, k2]
Components == {<<k>> : k \in Keys} \cup {kk \in Keys \X Keys : kk[1] # kk[2]}

RECURSIVE SeqsUpTo(_, _)
SeqsUpTo(S, n) ==
    IF n = 0 THEN {<<>>}
    ELSE LET shorter == SeqsUpTo(S, n - 1) IN
         shorter \cup {Append(p, c) : p \in shorter, c \in S}

KeyPaths == SeqsUpTo(Components, MaxPathLen)

\* the keys of a collection as the API sends it: "0", "1", ...
Indices == <<"0", "1", "2">>

\* the order in which the API sends the elements of a collection, each
\* element named by the value its sort key has
Orders == {<<1, 2>>, <<2, 1>>, <<2, 1, 3>>}

\* {"0": {"team": ...}, "1": {"team": ...}, ...}
Collection(order) ==
    JDict([i \in DOMAIN order |->
              Entry(Indices[i], JDict(<<Entry("team", JStr(order[i]))>>))])

Leaves == {JNull, JStr(1), JDict(<<>>), JList(<<>>)}
              \cup {Collection(order) : order \in Orders}

\* the containers that hold x under a key: a dict or a list of single-key
\* dicts, with and without a sibling, in both orders
Wrap(x) ==
    LET sib == JStr(2)
        pairs == {kk \in Keys \X Keys : kk[1] # kk[2]}
    IN
    {JDict(<<Entry(k1, x)>>) : k1 \in Keys}
    \cup {JDict(<<Entry(kk[1], x), Entry(kk[2], sib)>>) : kk \in pairs}
    \cup {JDict(<<Entry(kk[2], sib), Entry(kk[1], x)>>) : kk \in pairs}
    \cup {JList(<<Item(JDict(<<Entry(k1, x)>>))>>) : k1 \in Keys}
    \cup {JList(<<Item(JDict(<<Entry(kk[1], x)>>)), Item(JDict(<<Entry(kk[2], sib)>>))>>) :
             kk \in pairs}
    \cup {JList(<<Item(JDict(<<Entry(kk[2], sib)>>)), Item(JDict(<<Entry(kk[1], x)>>))>>) :
             kk \in pairs}

RECURSIVE DocsOfDepth(_)
DocsOfDepth(depth) ==
    IF depth = 0 THEN Leaves
    ELSE Leaves \cup UNION {Wrap(x) : x \in DocsOfDepth(depth - 1)}

\* get_response returns only when "fantasy_content" is non-empty
Docs == {d \in DocsOfDepth(MaxDepth) : Truthy(d)}

----------------------------------------------------------------------------
(* query: key-path navigation *)

Raise(exc) == [exc |-> exc, val |-> JNull]
Value(val) == [exc |-> "none", val |-> val]

\* d[key] of a dict raises KeyError for a missing key
Subscript(d, key) == IF HasKey(d, key) THEN Value(Lookup(d, key)) ELSE Raise("KeyError")

\* d.get(key) of a dict gives None for a missing key
DictGet_m(d, key) == Subscript(d, key)
DictGet(d, key) == IF HasKey(d, key) THEN Value(Lookup(d, key)) ELSE Value(JNull)

\* [{k1: m[k1]}, {k2: m[k2]}]
DualOf_m(m, comp) ==
    LET first == Subscript(m, comp[1])
        second == Subscript(m, comp[2])
    IN  IF first.exc # "none" THEN first
        ELSE IF second.exc # "none" THEN second
        ELSE Value(JList(<<Item(JDict(<<Entry(comp[1], first.val)>>)),
                           Item(JDict(<<Entry(comp[2], first.val)>>))>>))
DualOf(m, comp) ==
    LET first == Subscript(m, comp[1])
        second == Subscript(m, comp[2])
    IN  IF first.exc # "none" THEN first
        ELSE IF second.exc # "none" THEN second
        ELSE Value(JList(<<Item(JDict(<<Entry(comp[1], first.val)>>)),
                           Item(JDict(<<Entry(comp[2], second.val)>>))>>))

\* one iteration of the key-path loop
DrillDown(d, comp) ==
    IF d.t = "list"
    THEN IF Len(d.s) = 0 THEN Raise("IndexError")
         ELSE IF Len(comp) = 2 THEN DualOf(ReformatJsonList(d), comp)
         ELSE Subscript(ReformatJsonList(d), comp[1])
    ELSE IF Len(comp) = 2
         THEN IF d.t = "dict" THEN DualOf(d, comp) ELSE Raise("TypeError")
         ELSE IF d.t = "dict" THEN DictGet(d, comp[1]) ELSE Raise("AttributeError")

RECURSIVE Navigate(_, _)
Navigate(d, path) ==
    IF path = <<>> THEN Value(d)
    ELSE LET step == DrillDown(d, Head(path)) IN
         IF step.exc # "none" THEN step ELSE Navigate(step.val, Tail(path))

\* a mapping whose keys are "0", "1", ... in order
IsNumericKeyed(d) ==
    /\ d.t = "dict"
    /\ Len(d.s) > 0
    /\ Len(d.s) <= Len(Indices)
    /\ \A i \in DOMAIN d.s : d.s[i].k = Indices[i]

\* utils.unpack_data: a numeric-keyed mapping becomes the sequence of its
\* values, a list of single-key dicts becomes one mapping, and the values
\* inside are unpacked in the same way
RECURSIVE UnpackData(_)
UnpackData(d) ==
    LET inner(c) == [i \in DOMAIN c.s |-> [k |-> c.s[i].k, v |-> UnpackData(c.s[i].v)]]
    IN  IF IsNumericKeyed(d) THEN JList([i \in DOMAIN d.s |-> Item(UnpackData(d.s[i].v))])
        ELSE IF d.t = "list" /\ Len(d.s) > 0 THEN JDict(inner(ReformatJsonList(d)))
        ELSE IF d.t = "dict" THEN JDict(inner(d))
        ELSE d

\* sort_function: lambda x: x.get("team").<attribute>
SortFunction(el) ==
    IF el.t # "dict" THEN Raise("AttributeError")
    ELSE LET inner == DictGet(el, "team").val IN
         IF inner.t = "str" THEN Value(inner) ELSE Raise("AttributeError")

SortKey(el) == SortFunction(el).val.n

\* sorted(): an element goes after the elements whose key is not greater
RECURSIVE Insert(_, _)
Insert(el, sorted) ==
    IF sorted = <<>> THEN <<el>>
    ELSE IF SortKey(Head(sorted).v) <= SortKey(el.v)
         THEN <<Head(sorted)>> \o Insert(el, Tail(sorted))
         ELSE <<el>> \o sorted

RECURSIVE Sorted(_)
Sorted(items) ==
    IF items = <<>> THEN <<>>
    ELSE Insert(items[Len(items)], Sorted(SubSeq(items, 1, Len(items) - 1)))

\* if sort_function and not isinstance(query_data, dict): sorted(...)
ApplySort_m(data, sort) == Value(data)
ApplySort(data, sort) ==
    IF ~sort \/ data.t = "dict" THEN Value(data)
    ELSE IF data.t # "list" THEN Raise("AttributeError")
    ELSE IF \E i \in DOMAIN data.s : SortFunction(data.s[i].v).exc # "none"
    THEN Raise("AttributeError")
    ELSE Value(JList(Sorted(data.s)))

\* last_data_key.endswith("s")
EndsWithS(key) == key \in {"teams"}

\* last_data_key[:-1]
Singular(key) == IF key = "teams" THEN "team" ELSE key

\* el[key] of an element of the sequence
ElementSubscript(el, key) ==
    IF el.t = "dict" THEN Subscript(el, key) ELSE Raise("TypeError")

\* a sequence of single-key dicts becomes the sequence of their values when
\* the last key of the path ends in "s"
Flatten_m(data, path) == Value(data)
Flatten(data, path) ==
    IF data.t # "list" THEN Value(data)
    ELSE IF path = <<>> THEN Raise("IndexError")
    ELSE LET last_data_key == path[Len(path)] IN
         IF Len(last_data_key) = 2 THEN Raise("AttributeError")
         ELSE IF ~EndsWithS(last_data_key[1]) THEN Value(data)
         ELSE LET els == [i \in DOMAIN data.s |->
                             ElementSubscript(data.s[i].v, Singular(last_data_key[1]))]
              IN  IF \E i \in DOMAIN els : els[i].exc # "none"
                  THEN els[CHOOSE i \in DOMAIN els :
                              els[i].exc # "none"
                              /\ \A j \in 1..(i - 1) : els[j].exc = "none"]
                  ELSE Value(JList([i \in DOMAIN els |-> Item(els[i].val)]))

\* what query does with the extracted data: unpack, sort, flatten
QueryData(raw, path, sort) ==
    LET sorted == ApplySort(UnpackData(raw), sort) IN
    IF sorted.exc # "none" THEN sorted ELSE Flatten(sorted.val, path)

\* a response whose body decodes and holds the requested document
OkResponse == [status |-> 200, decodes |-> TRUE, error |-> FALSE, content |-> TRUE]

\* the responses a call of get_response by query ends on
QueryResponses ==
    {r \in Responses : r.decodes /\ r.status \in {200, 500, RATE_LIMIT_STATUS}
                                /\ (r.error => ~r.content)}

\* the exception get_response raises when the envelope is absent or the
\* upstream answered with an error payload: the URL, no payload
DataNotFoundOfResponse(u) == [exc |-> "DataNotFound", payload |-> <<>>, url |-> u]

\* the exception query raises when the key path yields no data: the key path
\* as payload, and the URL
DataNotFoundOfKeyPath_m(path, u) == [exc |-> "DataNotFound", payload |-> <<>>, url |-> u]
DataNotFoundOfKeyPath(path, u) == [exc |-> "DataNotFound", payload |-> path, url |-> u]

\* requests.HTTPError carries neither
HTTPErrorOfResponse == [exc |-> "HTTPError", payload |-> <<>>, url |-> "none"]

\* what get_response raises on its last response, once its retries are used up
GetResponseRaises(r, u) ==
    IF Outcome(r, 0) = "data_not_found" THEN DataNotFoundOfResponse(u)
    ELSE HTTPErrorOfResponse

\* the record query appends to executed_queries
ExecutedRecord(u, r) == [url |-> u, response_status_code |-> r.status, response |-> r]

\* jsonify_data: the JSON text of the data
Jsonify(data) == [t |-> "json", n |-> 0, s |-> <<Item(data)>>]

\* the last lines of query: the data as it is or as JSON text
Output(data) == IF all_output_as_json_str THEN Jsonify(data) ELSE data

\* the offline branch of query: an error is logged and None is returned
QueryOffline_m ==
    /\ q_exc' = "none"
    /\ q_raw' = JNull
    /\ q_payload' = <<>>
    /\ q_err_url' = "none"
    /\ q_result' = JNull
    /\ q_fetches' = q_fetches + 1
    /\ executed_queries' = Append(executed_queries, ExecutedRecord(q_url, q_response))
QueryOffline ==
    /\ q_exc' = "none"
    /\ q_raw' = JNull
    /\ q_payload' = <<>>
    /\ q_err_url' = "none"
    /\ q_result' = JNull
    /\ q_fetches' = q_fetches
    /\ executed_queries' = executed_queries

\* query raises e before it has extracted any data
QueryRaises_m(e) ==
    /\ q_exc' = e.exc
    /\ q_raw' = JNull
    /\ q_payload' = e.payload
    /\ q_err_url' = e.url
    /\ q_result' = JNull
    /\ executed_queries' = Append(executed_queries, ExecutedRecord(q_url, q_response))
QueryRaises(e) ==
    /\ q_exc' = e.exc
    /\ q_raw' = JNull
    /\ q_payload' = e.payload
    /\ q_err_url' = e.url
    /\ q_result' = JNull
    /\ executed_queries' = executed_queries

\* query: the call of get_response, the key-path loop, the check of the
\* extracted data, the record in executed_queries, and the unpacking, sorting
\* and flattening of the data; q_raw is what the unpacking works on
Query ==
    /\ q_pc = "call"
    /\ q_pc' = "done"
    /\ IF offline THEN QueryOffline
       ELSE /\ q_fetches' = q_fetches + 1
            /\ IF Outcome(q_response, 0) # "return"
               THEN QueryRaises(GetResponseRaises(q_response, q_url))
               ELSE LET nav == Navigate(q_doc, q_path) IN
                    IF nav.exc # "none"
                    THEN QueryRaises([exc |-> nav.exc, payload |-> <<>>, url |-> "none"])
                    ELSE IF Truthy(nav.val)
                    THEN LET data == QueryData(nav.val, q_path, q_sort) IN
                         /\ q_exc' = data.exc
                         /\ q_raw' = nav.val
                         /\ q_payload' = <<>>
                         /\ q_err_url' = "none"
                         /\ q_result' = IF data.exc = "none" THEN Output(data.val) ELSE JNull
                         /\ executed_queries' =
                                Append(executed_queries, ExecutedRecord(q_url, q_response))
                    ELSE QueryRaises(DataNotFoundOfKeyPath(q_path, q_url))
    /\ UNCHANGED <<q_url, q_doc, q_path, q_sort, q_response>>

QueryIdle ==
    /\ q_pc = "done"
    /\ q_url = "u1"
    /\ q_doc = JDict(<<Entry("league", JStr(1))>>)
    /\ q_path = <<>>
    /\ q_sort = FALSE
    /\ q_exc = "none"
    /\ q_raw = JNull
    /\ q_payload = <<>>
    /\ q_err_url = "none"
    /\ q_result = JNull
    /\ q_response = OkResponse
    /\ q_fetches = 0
    /\ executed_queries = <<>>

\* the documents and key paths of the calls made offline, in JSON mode, on a
\* failing response, or after an earlier query
SomeDocs ==
    {JDict(<<Entry("teams", Collection(<<2, 1>>))>>),
     JDict(<<Entry("league", JStr(1))>>),
     JDict(<<Entry("league", JNull)>>)}

SomePaths == {<<<<"teams">>>>, <<<<"league">>>>}

\* executed_queries before the call: empty, or the record of an earlier query
EarlierQueries == {<<>>, <<ExecutedRecord("u1", OkResponse)>>}

\* the calls of query: every document and key path on a good response of a
\* fresh online object, and some of them in every other situation
QueryInit ==
    /\ q_pc = "call"
    /\ q_url \in Urls
    /\ q_sort \in BOOLEAN
    /\ \/ /\ q_doc \in Docs
          /\ q_path \in KeyPaths
          /\ q_response = OkResponse
          /\ executed_queries = <<>>
          /\ offline = FALSE
          /\ all_output_as_json_str = FALSE
       \/ /\ q_doc \in SomeDocs
          /\ q_path \in SomePaths
          /\ q_response \in QueryResponses
          /\ executed_queries \in EarlierQueries
          /\ offline \in BOOLEAN
          /\ all_output_as_json_str \in BOOLEAN
    /\ q_exc = "none"
    /\ q_raw = JNull
    /\ q_payload = <<>>
    /\ q_err_url = "none"
    /\ q_result = JNull
    /\ q_fetches = 0

RespIdle ==
    /\ cfg_retries = 3
    /\ cfg_backoff = 0
    /\ retries = cfg_retries
    /\ backoff = cfg_backoff
    /\ pc = "idle"
    /\ err = "none"
    /\ url = "u1"
    /\ fetched = <<>>
    /\ resps = <<>>
    /\ auths = 0
    /\ sleeps = <<>>
    /\ budget0 = cfg_retries
    /\ retry_fetches = 0

----------------------------------------------------------------------------
(* get_league_players *)

league_player_retrieval_limit == 25
FallbackItems == 25

\* player_count_limit = None
None == -1

\* `if player_count_limit:` is false for None and for 0
HasLimit(limit) == limit # None /\ limit # 0

Limits == {None, 2, league_player_retrieval_limit, 30}
Starts == {0, league_player_retrieval_limit}

\* the argument pairs (limit, start) whose results p_hist keeps
HistKeys == {<<league_player_retrieval_limit, 0>>,
             <<None, league_player_retrieval_limit>>,
             <<None, 0>>}

RECURSIVE Range(_, _)
\* the identifiers of the players at offsets from..(to - 1), in order
Range(from, to) == IF from >= to THEN <<>> ELSE <<from>> \o Range(from + 1, to)

Min(a, b) == IF a < b THEN a ELSE b

\* league_player_count as the model keeps it: offsets from MaxOffset on are
\* not told apart (the upstream holds no player there and every limit is
\* below it, so the code takes the same branches at all of them)
Saturate(count) == Min(count, MaxOffset)

\* the players the upstream holds in the window (start, count)
UpstreamWindow(start, count) == Range(start, Min(start + count, p_total))

\* what the upstream answers when it serves the window without failure:
\* the players, or no data under the key-path when the window is empty
UpstreamAnswer(start, count) ==
    IF UpstreamWindow(start, count) = <<>> THEN "no_data" ELSE "ok"

\* outcomes of self.query(...) at a window: data, DataNotFound with the
\* key-path payload, DataNotFound without payload, HTTPError
WindowOutcomes == {"ok", "no_data", "no_envelope", "http_error"}

\* what self.query returns for the players of a window: a list, or the
\* bare object when the window holds a single player
QueryResult(players) ==
    IF Len(players) = 1
    THEN [list |-> FALSE, obj |-> players[1], items |-> <<>>]
    ELSE [list |-> TRUE, obj |-> None, items |-> players]

\* league_player_query_data if isinstance(league_player_query_data, list)
\* else [league_player_query_data]
AsList(result) == IF result.list THEN result.items ELSE <<result.obj>>

Take_m(limit, count) == limit - count - 1
Take(limit, count) == limit - count

\* for ndx in range(k): append(players[ndx])
FirstOf(players, k) == IF k <= 0 THEN <<>> ELSE SubSeq(players, 1, k)

\* the body of the try block after the query returned league_players
OnWindow_m(count, data, limit, players) ==
    LET n == Len(players) IN
    IF HasLimit(limit)
    THEN IF count + n < limit
         THEN [count |-> count + 1, data |-> data \o players, done |-> FALSE]
         ELSE [count |-> count + Take(limit, count),
               data |-> data \o FirstOf(players, Take(limit, count)),
               done |-> TRUE]
    ELSE [count |-> count + 1, data |-> data \o players, done |-> FALSE]
OnWindow(count, data, limit, players) ==
    LET n == Len(players) IN
    IF HasLimit(limit)
    THEN IF count + n < limit
         THEN [count |-> count + n, data |-> data \o players, done |-> FALSE]
         ELSE [count |-> count + Take(limit, count),
               data |-> data \o FirstOf(players, Take(limit, count)),
               done |-> TRUE]
    ELSE [count |-> count + n, data |-> data \o players, done |-> FALSE]

EndsPagination_m(out, limit) ==
    IF HasLimit(limit) THEN FALSE ELSE out \in {"no_data", "no_envelope"}
\* `if payload:` in the handler of DataNotFound
EndsPagination(out, limit) == out = "no_data"

\* the window outcome an exception with this payload stands for: the handler
\* reads yfpy_err.payload and tests it for truth
OutcomeOfPayload(payload) == IF payload # <<>> THEN "no_data" ELSE "no_envelope"

\* get_league_players(player_count_limit=start + 1, player_count_start=start,
\* is_retry=True): one query with count=1; DataNotFound is raised again
NestedGetLeaguePlayers(start, out) ==
    IF out = "ok"
    THEN [exc |-> "none",
          players |-> OnWindow(start, <<>>, start + 1, AsList(QueryResult(<<start>>))).data]
    ELSE IF out = "http_error"
    THEN [exc |-> "HTTPError", players |-> <<>>]
    ELSE [exc |-> "DataNotFound", players |-> <<>>]

FailureRecord_m(index) ==
    [failed_player_retrieval_index |-> index + 1,
     failed_player_retrieval_url |-> [start |-> index, count |-> 1]]
FailureRecord(index) ==
    [failed_player_retrieval_index |-> index,
     failed_player_retrieval_url |-> [start |-> index, count |-> 1]]

AfterItem_m(count, exc) == IF exc = "DataNotFound" THEN count ELSE count + 1
\* league_player_count += 1 at the end of every iteration
AfterItem(count, exc) == count + 1

RECURSIVE FallbackLoop(_, _, _, _, _)
\* for i in range(25): ... ; outs[i + 1] is the outcome of the i-th
\* single-item query
FallbackLoop(i, count, successes, failures, outs) ==
    IF i = FallbackItems
    THEN [exc |-> "none", count |-> count, successes |-> successes, failures |-> failures]
    ELSE LET r == NestedGetLeaguePlayers(count, outs[i + 1]) IN
         IF r.exc = "HTTPError"
         THEN [exc |-> "HTTPError", count |-> count,
               successes |-> successes, failures |-> failures]
         ELSE IF r.exc = "DataNotFound"
         THEN FallbackLoop(i + 1, AfterItem(count, r.exc), successes,
                           Append(failures, FailureRecord(count)), outs)
         ELSE FallbackLoop(i + 1, AfterItem(count, r.exc), successes \o r.players,
                           failures, outs)

RECURSIVE SubsetsUpTo(_, _)
\* the subsets of S with at most k elements
SubsetsUpTo(S, k) ==
    IF k = 0 THEN {{}}
    ELSE LET smaller == SubsetsUpTo(S, k - 1) IN
         smaller \cup {F \cup {x} : F \in smaller, x \in S}

\* a call of get_league_players(limit, start) by a caller
CallGetLeaguePlayers(limit, start) ==
    /\ p_pc \in {"idle", "returned", "raised"}
    /\ p_pc' = "loop"
    /\ player_count_limit' = limit
    /\ player_count_start' = start
    /\ league_player_count' = start
    /\ league_player_data' = <<>>
    /\ p_out' = "none"
    /\ player_retrieval_successes' = <<>>
    /\ player_retrieval_failures' = <<>>
    /\ p_fbstart' = 0
    /\ p_fbouts' = <<>>
    /\ p_nfallbacks' = 0
    /\ p_nfailures' = 0
    /\ p_exc' = "none"
    /\ UNCHANGED <<p_total, p_reliable, p_broken, p_hist>>

Record(limit, start, data) ==
    IF <<limit, start>> \in HistKeys
    THEN [p_hist EXCEPT ![<<limit, start>>] = [set |-> TRUE, ids |-> data]]
    ELSE p_hist

\* one iteration of the while loop up to the handler of DataNotFound
Window(out) ==
    /\ p_pc = "loop"
    /\ LET served == out = UpstreamAnswer(league_player_count, league_player_retrieval_limit) IN
       IF p_broken
       THEN /\ out = "no_envelope"
            /\ p_nfailures' = p_nfailures
       ELSE /\ out = "ok" => served
            /\ ~served => (~p_reliable /\ p_nfailures < MaxFailures)
            /\ p_nfailures' = IF served THEN p_nfailures ELSE p_nfailures + 1
    /\ p_out' = out
    /\ IF out = "ok"
       THEN LET w == OnWindow(league_player_count, league_player_data, player_count_limit,
                              AsList(QueryResult(UpstreamWindow(league_player_count,
                                                                league_player_retrieval_limit)))) IN
            /\ league_player_count' = Saturate(w.count)
            /\ league_player_data' = w.data
            /\ p_pc' = IF w.done THEN "returned" ELSE "loop"
            /\ p_exc' = "none"
       ELSE IF out = "http_error"
       THEN /\ p_pc' = "raised"
            /\ p_exc' = "HTTPError"
            /\ UNCHANGED <<league_player_count, league_player_data>>
       ELSE /\ p_pc' = IF EndsPagination(out, player_count_limit) THEN "returned" ELSE "fallback"
            /\ p_exc' = "none"
            /\ UNCHANGED <<league_player_count, league_player_data>>
    /\ p_hist' = IF p_pc' = "returned" /\ p_reliable
                 THEN Record(player_count_limit, player_count_start, league_player_data')
                 ELSE p_hist
    /\ UNCHANGED <<p_total, player_count_limit, player_count_start,
                   player_retrieval_successes, player_retrieval_failures, p_fbstart,
                   p_fbouts, p_reliable, p_broken, p_nfallbacks>>

\* the offsets of the window the fallback works on
FallbackWindow(start) == start..(start + FallbackItems - 1)

\* the outcomes of the 25 single-item queries: the upstream has no data
\* beyond the collection, the queries at the offsets in F fail, with
\* HTTPError at offset abort (if any) and with DataNotFound at the others
ItemOutcomes(F, abort) ==
    [i \in 1..FallbackItems |->
        LET offset == league_player_count + i - 1 IN
        IF offset = abort THEN "http_error"
        ELSE IF offset >= p_total THEN "no_data"
        ELSE IF offset \in F THEN "no_envelope"
        ELSE "ok"]

\* the offsets of the current window at which a broken upstream fails
BrokenItems == {o \in FallbackWindow(league_player_count) : o < p_total}

\* the per-item retrieval of the failed window
Fallback(F, abort) ==
    /\ p_pc = "fallback"
    /\ LET outs == ItemOutcomes(F, abort)
           fb == FallbackLoop(0, league_player_count, <<>>, <<>>, outs)
       IN
       /\ p_fbstart' = league_player_count
       /\ p_fbouts' = outs
       /\ player_retrieval_successes' = fb.successes
       /\ player_retrieval_failures' = fb.failures
       /\ league_player_count' = Saturate(fb.count)
       /\ IF fb.exc = "none"
          THEN /\ league_player_data' = league_player_data \o fb.successes
               /\ p_pc' = "loop"
               /\ p_exc' = "none"
          ELSE /\ league_player_data' = league_player_data
               /\ p_pc' = "raised"
               /\ p_exc' = fb.exc
    /\ F \subseteq {o \in FallbackWindow(league_player_count) : o < p_total}
    /\ abort \in {None} \cup {o \in F : \A x \in F : x <= o}
    /\ p_broken => (F = BrokenItems /\ abort = None)
    /\ p_nfallbacks' = IF p_broken THEN p_nfallbacks ELSE p_nfallbacks + 1
    /\ p_nfailures' = IF p_broken THEN p_nfailures ELSE p_nfailures + Cardinality(F)
    /\ UNCHANGED <<p_total, player_count_limit, player_count_start, p_out, p_reliable,
                   p_broken, p_hist>>

PlayersIdle ==
    /\ p_total = 0
    /\ p_pc = "idle"
    /\ player_count_limit = None
    /\ player_count_start = 0
    /\ league_player_count = 0
    /\ league_player_data = <<>>
    /\ p_out = "none"
    /\ player_retrieval_successes = <<>>
    /\ player_retrieval_failures = <<>>
    /\ p_fbstart = 0
    /\ p_fbouts = <<>>
    /\ p_reliable = TRUE
    /\ p_broken = FALSE
    /\ p_nfallbacks = 0
    /\ p_nfailures = 0
    /\ p_exc = "none"
    /\ p_hist = [key \in HistKeys |-> [set |-> FALSE, ids |-> <<>>]]

PlayersInit ==
    /\ p_total \in 0..MaxPlayers
    /\ p_pc = "idle"
    /\ player_count_limit = None
    /\ player_count_start = 0
    /\ league_player_count = 0
    /\ league_player_data = <<>>
    /\ p_out = "none"
    /\ player_retrieval_successes = <<>>
    /\ player_retrieval_failures = <<>>
    /\ p_fbstart = 0
    /\ p_fbouts = <<>>
    /\ p_reliable \in BOOLEAN
    /\ p_broken = FALSE
    /\ p_nfallbacks = 0
    /\ p_nfailures = 0
    /\ p_exc = "none"
    /\ p_hist = [key \in HistKeys |-> [set |-> FALSE, ids |-> <<>>]]

\* as PlayersInit, and the upstream may be one that fails every request
PlayersInitLive ==
    /\ p_total \in 0..MaxPlayers
    /\ p_pc = "idle"
    /\ player_count_limit = None
    /\ player_count_start = 0
    /\ league_player_count = 0
    /\ league_player_data = <<>>
    /\ p_out = "none"
    /\ player_retrieval_successes = <<>>
    /\ player_retrieval_failures = <<>>
    /\ p_fbstart = 0
    /\ p_fbouts = <<>>
    /\ p_reliable \in BOOLEAN
    /\ p_broken \in {b \in BOOLEAN : b => ~p_reliable}
    /\ p_nfallbacks = 0
    /\ p_nfailures = 0
    /\ p_exc = "none"
    /\ p_hist = [key \in HistKeys |-> [set |-> FALSE, ids |-> <<>>]]

----------------------------------------------------------------------------
(* get_league_key and the operations built on it *)

\* self.league_id
LeagueId == 7

\* a composite key: {game}, {game}.l.{league} or {game}.l.{league}.t.{team};
\* a part that is 0 is not in the key
NoKey == [game |-> 0, league |-> 0, team |-> 0]

\* f"{game_key}.l.{self.league_id}"
LeagueKey(game_key, league_id) == [game |-> game_key, league |-> league_id, team |-> 0]

\* f"{self.get_league_key()}.t.{team_id}"
TeamKey(league, team_id) == [league EXCEPT !.team = team_id]

\* the seasons a caller asks for; None stands for no season
Seasons == {2019, 2020}

\* values of the constructor argument game_id; 0 stands for None
GameIds == {0, 406}

\* values the caller may have assigned to league_key; NoKey stands for None
CachedKeys == {NoKey, LeagueKey(390, LeagueId)}

Teams == 1..MaxTeams

PlayerKeys == {11}

\* the game key the upstream holds for the game a metadata URL names
GameKeyOfSeason == [s \in Seasons |-> IF s = 2019 THEN 390 ELSE 399]
CurrentGameKey == 449

\* a URL: the resource it is rooted at, the key or game code that follows,
\* the rest of the path, and the values put into it
Url(resource, key, code, tail, player, arg) ==
    [resource |-> resource, key |-> key, code |-> code, tail |-> tail,
     player |-> player, arg |-> arg]

\* a call of self.query: the URL and the data_key_list it is given, and
\* whether it fetches
QueryCall(u, path) == [url |-> u, path |-> path, fetch |-> ~offline]

QueryOutcomes == {"ok", "DataNotFound", "HTTPError"}

\* what self.query gives its caller: None when offline, the exception of a
\* failed fetch, a JSON string when all_output_as_json_str, else the object
QueryReturn(out, json) ==
    IF offline THEN [exc |-> "none", kind |-> "none"]
    ELSE IF out # "ok" THEN [exc |-> out, kind |-> "none"]
    ELSE [exc |-> "none", kind |-> IF json THEN "json" ELSE "object"]

UpstreamGameKey(u) ==
    IF u.resource = "games" THEN GameKeyOfSeason[u.arg]
    ELSE IF u.code # "" THEN CurrentGameKey
    ELSE u.key.game

GamesBySeasonUrl(season) == Url("games", NoKey, "nfl", "seasons", 0, season)
GameMetadataUrl(id) == Url("game", [NoKey EXCEPT !.game = id], "", "metadata", 0, 0)
CurrentGameMetadataUrl == Url("game", NoKey, "nfl", "metadata", 0, 0)

\* the result of a step of an operation: the exception raised, the game key
\* or league key obtained, the calls of self.query made, and
\* all_output_as_json_str afterwards
Step(exc, key, queries, json) == [exc |-> exc, key |-> key, queries |-> queries, json |-> json]

\* self.query(...).get("game").game_key with all_output_as_json_str cleared
\* before the query and set again after it
get_game_key_by_season(season, out) ==
    LET u == GamesBySeasonUrl(season)
        q == QueryCall(u, <<"games">>)
        r == QueryReturn(out, FALSE)
    IN  IF r.exc # "none" THEN Step(r.exc, 0, <<q>>, FALSE)
        ELSE IF r.kind = "none" THEN Step("AttributeError", 0, <<q>>, FALSE)
        ELSE Step("none", UpstreamGameKey(u), <<q>>, all_output_as_json_str)

\* self.query(..., ["game"], Game).game_key
GameKeyOfMetadata(u, out) ==
    LET q == QueryCall(u, <<"game">>)
        r == QueryReturn(out, all_output_as_json_str)
    IN  IF r.exc # "none" THEN Step(r.exc, 0, <<q>>, all_output_as_json_str)
        ELSE IF r.kind # "object" THEN Step("AttributeError", 0, <<q>>, all_output_as_json_str)
        ELSE Step("none", UpstreamGameKey(u), <<q>>, all_output_as_json_str)

\* the game key of the league: by season, else by game_id, else current
ResolveGameKey_m(season, out) ==
    IF game_id # 0 THEN GameKeyOfMetadata(GameMetadataUrl(game_id), out)
    ELSE IF season # None /\ season # 0 THEN get_game_key_by_season(season, out)
    ELSE GameKeyOfMetadata(CurrentGameMetadataUrl, out)
ResolveGameKey(season, out) ==
    IF season # None /\ season # 0 THEN get_game_key_by_season(season, out)
    ELSE IF game_id # 0 THEN GameKeyOfMetadata(GameMetadataUrl(game_id), out)
    ELSE GameKeyOfMetadata(CurrentGameMetadataUrl, out)

get_league_key_m(season, out) ==
    IF league_key = NoKey \/ season # None
    THEN LET g == ResolveGameKey(season, out) IN
         IF g.exc # "none" THEN [g EXCEPT !.key = NoKey]
         ELSE [g EXCEPT !.key = LeagueKey(g.key, LeagueId)]
    ELSE Step("none", league_key, <<>>, all_output_as_json_str)
get_league_key(season, out) ==
    IF league_key = NoKey
    THEN LET g == ResolveGameKey(season, out) IN
         IF g.exc # "none" THEN [g EXCEPT !.key = NoKey]
         ELSE [g EXCEPT !.key = LeagueKey(g.key, LeagueId)]
    ELSE Step("none", league_key, <<>>, all_output_as_json_str)

StatsKinds == {"season", "week", "date"}

\* the URL and key-path of the player-stats query
PlayerStatsQuery_m(kind, player_key, limit_to_league_stats, league) ==
    QueryCall(Url("league", league, "", "players", player_key, kind),
              <<"league", "players", "0", "player">>)
PlayerStatsQuery(kind, player_key, limit_to_league_stats, league) ==
    IF limit_to_league_stats
    THEN QueryCall(Url("league", league, "", "players", player_key, kind),
                   <<"league", "players", "0", "player">>)
    ELSE QueryCall(Url("players", NoKey, "", "", player_key, kind),
                   <<"players", "0", "player">>)

\* the end of an operation: what it leaves in the state
Finish(op, season, team, limit, step, ret) ==
    /\ l_ncalls < MaxCalls
    /\ l_ncalls' = l_ncalls + 1
    /\ l_op' = op
    /\ l_season' = season
    /\ l_team' = team
    /\ l_limit' = limit
    /\ l_exc' = step.exc
    /\ l_key' = IF op = "get_game_key_by_season" THEN NoKey ELSE step.key
    /\ l_game' = IF op = "get_game_key_by_season" THEN step.key ELSE 0
    /\ l_queries' = step.queries
    /\ l_ret' = ret
    /\ l_cache0' = league_key
    /\ l_earlier' = IF l_op = "get_league_key" /\ l_exc = "none" THEN l_key ELSE l_earlier
    /\ all_output_as_json_str' = step.json
    /\ UNCHANGED <<league_key, game_id, offline, init_auths>>

CallGetGameKeyBySeason(season, out) ==
    LET step == get_game_key_by_season(season, out) IN
    Finish("get_game_key_by_season", season, 0, FALSE, step,
           IF step.exc = "none" THEN "game_key" ELSE "none")

CallGetLeagueKey(season, out) ==
    LET step == get_league_key(season, out) IN
    Finish("get_league_key", season, 0, FALSE, step,
           IF step.exc = "none" THEN "key" ELSE "none")

\* an operation that resolves the league key and then makes the query q
WithLeagueKey(op, team, limit, lk, q, out) ==
    IF lk.exc # "none" THEN Finish(op, None, team, limit, lk, "none")
    ELSE LET r == QueryReturn(out, lk.json) IN
         Finish(op, None, team, limit,
                Step(r.exc, lk.key, lk.queries \o <<q>>, lk.json), r.kind)

CallGetTeamInfo(team_id, out1, out2) ==
    LET lk == get_league_key(None, out1) IN
    WithLeagueKey("get_team_info", team_id, FALSE, lk,
                  QueryCall(Url("team", TeamKey(lk.key, team_id), "", "out", 0, 0), <<"team">>),
                  out2)

CallGetPlayerStats(kind, player_key, limit_to_league_stats, out1, out2) ==
    LET lk == IF limit_to_league_stats THEN get_league_key(None, out1)
              ELSE Step("none", NoKey, <<>>, all_output_as_json_str)
    IN  WithLeagueKey(kind, 0, limit_to_league_stats, lk,
                      PlayerStatsQuery(kind, player_key, limit_to_league_stats, lk.key),
                      out2)

\* __init__ authenticates unless the object is offline
ConstructorAuths(off) == IF off THEN 0 ELSE 1

LeagueOpIdle ==
    /\ l_ncalls = 0
    /\ l_op = "none"
    /\ l_season = None
    /\ l_team = 0
    /\ l_limit = FALSE
    /\ l_exc = "none"
    /\ l_key = NoKey
    /\ l_game = 0
    /\ l_queries = <<>>
    /\ l_ret = "none"
    /\ l_cache0 = NoKey
    /\ l_earlier = NoKey

LeagueIdle ==
    /\ league_key = NoKey
    /\ game_id = 0
    /\ all_output_as_json_str = FALSE
    /\ offline = FALSE
    /\ init_auths = ConstructorAuths(FALSE)
    /\ l_ncalls = 0
    /\ l_op = "none"
    /\ l_season = None
    /\ l_team = 0
    /\ l_limit = FALSE
    /\ l_exc = "none"
    /\ l_key = NoKey
    /\ l_game = 0
    /\ l_queries = <<>>
    /\ l_ret = "none"
    /\ l_cache0 = NoKey
    /\ l_earlier = NoKey

\* the object as constructed; the caller may have assigned league_key
LeagueInit ==
    /\ league_key \in CachedKeys
    /\ game_id \in GameIds
    /\ all_output_as_json_str \in BOOLEAN
    /\ offline \in BOOLEAN
    /\ init_auths = ConstructorAuths(offline)
    /\ l_ncalls = 0
    /\ l_op = "none"
    /\ l_season = None
    /\ l_team = 0
    /\ l_limit = FALSE
    /\ l_exc = "none"
    /\ l_key = NoKey
    /\ l_game = 0
    /\ l_queries = <<>>
    /\ l_ret = "none"
    /\ l_cache0 = NoKey
    /\ l_earlier = NoKey

----------------------------------------------------------------------------
(* Specifications *)

Init == RespInit /\ QueryIdle /\ PlayersIdle /\ LeagueIdle

Next ==
    \/ \E u \in Urls, r \in Responses :
          GetResponse(u, r) /\ UNCHANGED <<queryVars, playerVars, leagueVars>>
    \/ \E r \in Responses :
          RetryGetResponse(r) /\ UNCHANGED <<queryVars, playerVars, leagueVars>>

Spec == Init /\ [][Next]_vars

InitQuery ==
    /\ RespIdle /\ QueryInit /\ PlayersIdle /\ LeagueOpIdle
    /\ league_key = NoKey
    /\ game_id = 0
    /\ init_auths = ConstructorAuths(offline)

NextQuery == Query /\ UNCHANGED <<respVars, playerVars, leagueVars>>

SpecQuery == InitQuery /\ [][NextQuery]_vars

InitPlayers == RespIdle /\ QueryIdle /\ PlayersInit /\ LeagueIdle

NextPlayers ==
    \/ \E limit \in Limits, start \in Starts :
          CallGetLeaguePlayers(limit, start) /\ UNCHANGED <<respVars, queryVars, leagueVars>>
    \/ \E out \in WindowOutcomes :
          Window(out) /\ UNCHANGED <<respVars, queryVars, leagueVars>>
    \/ /\ p_pc = "fallback"
       /\ \E F \in SubsetsUpTo(FallbackWindow(league_player_count), MaxFailures - p_nfailures) :
          \E abort \in {None} \cup F :
             Fallback(F, abort) /\ UNCHANGED <<respVars, queryVars, leagueVars>>

SpecPlayers == InitPlayers /\ [][NextPlayers]_vars

InitPlayersLive == RespIdle /\ QueryIdle /\ PlayersInitLive /\ LeagueIdle

\* the steps get_league_players takes once it was called: every fetch
\* returns, so the step that waits for it is taken
PlayersStep ==
    \/ \E out \in WindowOutcomes :
          Window(out) /\ UNCHANGED <<respVars, queryVars, leagueVars>>
    \/ /\ p_pc = "fallback"
       /\ ~p_broken
       /\ \E F \in SubsetsUpTo(FallbackWindow(league_player_count), MaxFailures - p_nfailures) :
          \E abort \in {None} \cup F :
             Fallback(F, abort) /\ UNCHANGED <<respVars, queryVars, leagueVars>>
    \/ /\ p_pc = "fallback"
       /\ p_broken
       /\ Fallback(BrokenItems, None) /\ UNCHANGED <<respVars, queryVars, leagueVars>>

NextPlayersLive ==
    \/ \E limit \in Limits, start \in Starts :
          CallGetLeaguePlayers(limit, start) /\ UNCHANGED <<respVars, queryVars, leagueVars>>
    \/ PlayersStep

SpecPlayersLive == InitPlayersLive /\ [][NextPlayersLive]_vars /\ WF_vars(PlayersStep)

InitLeague == RespIdle /\ QueryIdle /\ PlayersIdle /\ LeagueInit

NextLeague ==
    \/ \E season \in Seasons, out \in QueryOutcomes :
          CallGetGameKeyBySeason(season, out)
          /\ UNCHANGED <<respVars, queryVars, playerVars>>
    \/ \E season \in {None} \cup Seasons, out \in QueryOutcomes :
          CallGetLeagueKey(season, out) /\ UNCHANGED <<respVars, queryVars, playerVars>>
    \/ \E team_id \in Teams, out1, out2 \in QueryOutcomes :
          CallGetTeamInfo(team_id, out1, out2)
          /\ UNCHANGED <<respVars, queryVars, playerVars>>
    \/ \E kind \in StatsKinds, player_key \in PlayerKeys, limit \in BOOLEAN,
          out1, out2 \in QueryOutcomes :
          CallGetPlayerStats(kind, player_key, limit, out1, out2)
          /\ UNCHANGED <<respVars, queryVars, playerVars>>

SpecLeague == InitLeague /\ [][NextLeague]_vars

----------------------------------------------------------------------------
(* Properties of get_response *)

Last(s) == s[Len(s)]

\* a response that reaches the retry handler: 4xx/5xx, body decodes,
\* no error payload
IsHttpError(r) == RaisesForStatus(r.status) /\ r.decodes /\ ~r.error

AllHttpError(rs) == \A i \in DOMAIN rs : IsHttpError(rs[i])

\* C1 (as amended): a call that starts with remaining budget r and receives
\* only HTTP-error responses (4xx/5xx, decodable body, no error payload) keeps
\* retrying while it has received at most r of them and fails with the HTTP
\* error on the (r+1)-th: the failing call issues exactly r+1 fetches.
C1_BudgetExhaustion ==
    (resps # <<>> /\ AllHttpError(resps)) =>
        /\ Len(fetched) = Len(resps)
        /\ Len(resps) <= budget0 + 1
        /\ Len(resps) <= budget0 => pc = "retrying"
        /\ Len(resps) = budget0 + 1 => (pc = "raised" /\ err = "http_error")

C1_Witness ==
    /\ pc = "raised" /\ err = "http_error"
    /\ AllHttpError(resps)
    /\ budget0 = cfg_retries /\ cfg_retries >= 2
    /\ Len(fetched) = cfg_retries + 1

\* C1 (original): the call that fails after consecutive HTTP errors has
\* issued exactly `retries` fetches.
C1_Original ==
    (pc = "raised" /\ err = "http_error" /\ AllHttpError(resps)) =>
        Len(fetched) = cfg_retries

\* C2: a fetch answered with status 999, first fetch or retry fetch, ends
\* the call at once with the rate-limit error; that response changes neither
\* the retry budget nor the back-off counter and triggers no authentication.
C2_RateLimitNeverRetried ==
    [][(resps' # <<>> /\ Last(resps').status = RATE_LIMIT_STATUS) =>
          /\ pc' = "raised" /\ err' = "rate_limited"
          /\ retries' = retries /\ backoff' = backoff
          /\ Len(sleeps') = Len(resps') - 1]_vars

C2_Witness ==
    /\ pc = "raised" /\ err = "rate_limited"
    /\ Len(fetched) >= 2
    /\ Last(resps).status = RATE_LIMIT_STATUS

\* C3 (as amended): every 401 response triggers exactly one re-authentication
\* and is then handled as an HTTP error: with a decodable body without error
\* payload, the same URL is fetched again at the cost of one unit of the
\* retry budget when the budget is positive, and the HTTP error is raised
\* without any re-attempt when the budget is 0.
Count401(rs) == Cardinality({i \in DOMAIN rs : rs[i].status = UNAUTHORIZED_STATUS})

IsErrorPayloadResponse(r) ==
    r.status # RATE_LIMIT_STATUS /\ (r.status \div 100) # 2 /\ r.decodes /\ r.error

C6_LinearBackoff ==
    cfg_backoff = 0 => \A k \in DOMAIN sleeps : sleeps[k] = k

\* C18: a retry that succeeds makes the call succeed: when the responses
\* before the last one were all HTTP errors (status 4xx or 5xx, body
\* decodable, no error payload) and the last response, received by a retry,
\* is a 2xx response that carries the envelope, get_response returns and
\* raises nothing.
C18_RetrySuccess ==
    (/\ pc \in {"returned", "raised"}
     /\ Len(resps) >= 2
     /\ AllHttpError(SubSeq(resps, 1, Len(resps) - 1))
     /\ Last(resps).status \div 100 = 2
     /\ Last(resps).decodes
     /\ Last(resps).content)
        => (pc = "returned" /\ err = "none")

\* C19: the retry budget is per call: every call of get_response by a
\* caller starts with the configured number of retries.
C19_BudgetPerCall ==
    pc # "idle" => budget0 = cfg_retries

\* C20: in every reachable state the remaining retry budget is between 0
\* and the configured retries, the remaining budget plus the backoff counter
\* equals the configured retries plus the configured initial backoff, and the
\* retry fetches made since construction are at most the configured retries;
\* no step increases the budget or decreases the backoff counter.
C20_BudgetConservation ==
    /\ [](/\ retries >= 0
          /\ retries <= cfg_retries
          /\ retries + backoff = cfg_retries + cfg_backoff
          /\ retry_fetches <= cfg_retries
          /\ retry_fetches <= cfg_retries - retries)
    /\ [][backoff' >= backoff /\ retries' <= retries]_vars

C20_Witness ==
    /\ cfg_retries = 3
    /\ retries = 0
    /\ backoff = cfg_backoff + 3
    /\ retry_fetches = 3
    /\ Len(fetched) = 2

----------------------------------------------------------------------------
(* Properties of query *)

\* the component is absent at its level: the node is a dict without the
\* key, or a list none of whose dicts has the key
AbsentAt(d, comp) ==
    /\ d.t \in {"dict", "list"}
    /\ LET m == IF d.t = "list" THEN ReformatJsonList(d) ELSE d IN
       \E i \in DOMAIN comp : ~HasKey(m, comp[i])

\* some component of the path is absent at the level the loop reaches it
RECURSIVE SomeAbsent(_, _)
SomeAbsent(d, path) ==
    /\ path # <<>>
    /\ \/ AbsentAt(d, Head(path))
       \/ LET step == DrillDown(d, Head(path)) IN
          step.exc = "none" /\ SomeAbsent(step.val, Tail(path))

\* C7: whenever a component of the key-path is absent at its level, query
\* raises DataNotFound carrying the key-path and the URL, and nothing else.
C7_AbsentIsDataNotFound ==
    (q_pc = "done" /\ SomeAbsent(q_doc, q_path)) =>
        (q_exc = "DataNotFound" /\ q_payload = q_path /\ q_err_url = q_url)

\* the values the key has at the level: in the mapping itself, or in the
\* single-key dicts of the list
SiblingValues(d, key) ==
    LET ValuesIn(m) == {m.s[i].v : i \in {j \in DOMAIN m.s : m.s[j].k = key}} IN
    IF d.t = "dict" THEN ValuesIn(d)
    ELSE IF d.t = "list"
    THEN UNION {ValuesIn(d.s[i].v) : i \in {j \in DOMAIN d.s : d.s[j].v.t = "dict"}}
    ELSE {}

\* the two single-key dicts a dual component takes from the level
DualAt(d, comp) ==
    {JList(<<Item(JDict(<<Entry(comp[1], v1)>>)), Item(JDict(<<Entry(comp[2], v2)>>))>>) :
        v1 \in SiblingValues(d, comp[1]), v2 \in SiblingValues(d, comp[2])}

\* the value the key-path loop holds after i components
After(i) == Navigate(q_doc, SubSeq(q_path, 1, i))

\* the i-th component is a pair of keys that are both present, as siblings,
\* at the level the loop has reached
DualPresent(i) ==
    /\ Len(q_path[i]) = 2
    /\ After(i - 1).exc = "none"
    /\ DualAt(After(i - 1).val, q_path[i]) # {}

\* C12: when a component of the key-path is a pair [k1, k2] and both keys
\* are present as siblings at the current level (a mapping, or a list of
\* single-key dicts, in either order), the value carried forward holds
\* exactly the two keys, k1 with the value of k1 at that level and k2 with
\* the value of k2, and nothing else; when the pair is the last component,
\* that value is the extracted data.
C12_DualKeyExtraction ==
    q_pc = "done" =>
        \A i \in DOMAIN q_path :
            DualPresent(i) =>
                /\ After(i).exc = "none"
                /\ After(i).val \in DualAt(After(i - 1).val, q_path[i])
                /\ i = Len(q_path) => q_raw = After(i).val

C12_Witness ==
    /\ q_pc = "done"
    /\ q_path # <<>>
    /\ DualPresent(Len(q_path))
    /\ After(Len(q_path) - 1).val.t = "list"
    /\ After(Len(q_path) - 1).val.s[1].v.s[1].k = q_path[Len(q_path)][2]
    /\ q_raw.t = "list"
    /\ Len(q_raw.s) = 2
    /\ q_raw.s[1].v # q_raw.s[2].v

\* a non-empty sequence of single-key dicts that all have the given key
WrapperSeq(d, key) ==
    /\ d.t = "list"
    /\ Len(d.s) > 0
    /\ \A i \in DOMAIN d.s :
          /\ d.s[i].v.t = "dict"
          /\ Len(d.s[i].v.s) = 1
          /\ d.s[i].v.s[1].k = key

\* the extracted data is a sequence of {"team": ...} and the key-path ends
\* in "teams"
PluralCase ==
    /\ q_pc = "done"
    /\ ~all_output_as_json_str
    /\ q_raw # JNull
    /\ q_path # <<>>
    /\ Last(q_path) = <<"teams">>
    /\ WrapperSeq(UnpackData(q_raw), "team")

\* C13: when the data extracted by the key-path is a sequence of single-key
\* wrappers and the last component of the key-path is a key ending in the
\* plural "s" (here "teams"), query returns a sequence of the same length
\* whose elements are the bare values the wrappers hold under the singular
\* key ("team"), none of them still wrapped, and in the original order when
\* no sort function is given.
C13_PluralFlattening ==
    PluralCase =>
        LET wrapped == UnpackData(q_raw).s IN
        /\ q_exc = "none"
        /\ q_result.t = "list"
        /\ Len(q_result.s) = Len(wrapped)
        /\ \A i \in DOMAIN q_result.s :
              /\ \E j \in DOMAIN wrapped : q_result.s[i].v = wrapped[j].v.s[1].v
              /\ ~WrapperSeq(JList(<<q_result.s[i]>>), "team")
        /\ ~q_sort => \A i \in DOMAIN wrapped : q_result.s[i].v = wrapped[i].v.s[1].v

C13_Witness ==
    /\ PluralCase
    /\ ~q_sort
    /\ q_exc = "none"
    /\ Len(q_result.s) = 3
    /\ q_result.s[1].v = JStr(2)
    /\ q_result.s[2].v = JStr(1)

\* query was given a sort function and a non-empty key-path, and the
\* extracted data is a sequence of {"team": ...}
SortCase ==
    /\ q_pc = "done"
    /\ ~all_output_as_json_str
    /\ q_raw # JNull
    /\ q_path # <<>>
    /\ q_sort
    /\ WrapperSeq(UnpackData(q_raw), "team")

\* the sort keys of the elements of the returned sequence, which are bare
\* when the key-path ends in "teams" and wrapped otherwise
ResultKeys ==
    [i \in DOMAIN q_result.s |->
        IF Last(q_path) = <<"teams">> THEN q_result.s[i].v.n
        ELSE q_result.s[i].v.s[1].v.n]

IsPermutation(a, b) ==
    /\ Len(a) = Len(b)
    /\ \E f \in [DOMAIN a -> DOMAIN b] :
          /\ \A i, j \in DOMAIN a : f[i] = f[j] => i = j
          /\ \A i \in DOMAIN a : a[i] = b[f[i]]

\* C14: when query is given a sort function and the extracted data is a
\* sequence, the returned sequence is a permutation of the extracted one in
\* non-decreasing order of the sort key, the key being taken from the
\* still-wrapped elements and the order kept by the flattening; when the
\* extracted data is a mapping the sort function is not applied.
C14_SortedQueries ==
    /\ SortCase =>
          LET wrapped == UnpackData(q_raw).s IN
          /\ q_exc = "none"
          /\ q_result.t = "list"
          /\ IsPermutation(ResultKeys, [i \in DOMAIN wrapped |-> wrapped[i].v.s[1].v.n])
          /\ \A i, j \in DOMAIN ResultKeys : i <= j => ResultKeys[i] <= ResultKeys[j]
    /\ (q_pc = "done" /\ ~all_output_as_json_str /\ q_raw # JNull /\ q_sort
          /\ UnpackData(q_raw).t = "dict") =>
          (q_exc = "none" /\ q_result = UnpackData(q_raw))

C14_Witness ==
    /\ SortCase
    /\ Last(q_path) = <<"teams">>
    /\ Len(UnpackData(q_raw).s) = 3
    /\ UnpackData(q_raw).s[1].v.s[1].v.n = 2
    /\ q_exc = "none"
    /\ ResultKeys = <<1, 2, 3>>

----------------------------------------------------------------------------
(* Properties of get_league_players *)

IsPrefix(a, b) == Len(a) <= Len(b) /\ SubSeq(b, 1, Len(a)) = a

RECURSIVE Ascending(_)
\* the elements of a finite set of numbers in increasing order
Ascending(S) ==
    IF S = {} THEN <<>>
    ELSE LET least == CHOOSE x \in S : \A y \in S : x <= y IN
         <<least>> \o Ascending(S \ {least})

\* C8 (as amended): what a DataNotFound on a window means depends on whether
\* it carries the key-path payload, not on player_count_limit: with the
\* payload it ends pagination and the players collected so far are returned;
\* without payload it starts the per-item fallback for that window.
C8_PayloadDecides ==
    [][p_pc = "loop" =>
          /\ p_out' = "no_data" =>
                /\ p_pc' = "returned" /\ p_exc' = "none"
                /\ league_player_data' = league_player_data
          /\ p_out' = "no_envelope" =>
                /\ p_pc' = "fallback"
                /\ league_player_data' = league_player_data
                /\ league_player_count' = league_player_count]_vars

C8_Witness ==
    /\ p_pc = "returned"
    /\ ~HasLimit(player_count_limit)
    /\ p_nfallbacks = 1
    /\ p_out = "no_data"
    /\ league_player_data = player_retrieval_successes /\ player_retrieval_successes # <<>>

\* C8 (original): a DataNotFound on a window ends pagination when no limit
\* is set and starts the per-item fallback when a limit is set.
C8_Original ==
    [][(p_pc = "loop" /\ p_out' \in {"no_data", "no_envelope"}) =>
          IF HasLimit(player_count_limit)
          THEN p_pc' = "fallback"
          ELSE p_pc' = "returned" /\ league_player_data' = league_player_data]_vars

\* the offsets of the fallback window whose single-item query raised
\* DataNotFound
ItemsNotFound(start, outs) ==
    {o \in FallbackWindow(start) : outs[o - start + 1] \in {"no_data", "no_envelope"}}
NoHttpError(outs) == \A i \in DOMAIN outs : outs[i] # "http_error"

\* C9: when the fallback runs and single-item queries fail with DataNotFound
\* (in particular exactly one, at offset N), the successes are the other
\* items of the window in offset order and are appended to the result, one
\* failure record per failed offset is recorded with that offset as index,
\* the call is not aborted, and the result never loses an item afterwards.
C9_PartialBatchFallback ==
    [][/\ (p_pc = "fallback" /\ NoHttpError(p_fbouts')) =>
             LET failed == ItemsNotFound(league_player_count, p_fbouts') IN
             /\ p_pc' = "loop" /\ p_exc' = "none"
             /\ player_retrieval_successes' =
                    Ascending(FallbackWindow(league_player_count) \ failed)
             /\ league_player_data' = league_player_data \o player_retrieval_successes'
             /\ player_retrieval_failures' = [i \in 1..Cardinality(failed) |->
                                  FailureRecord(Ascending(failed)[i])]
             /\ league_player_count' = league_player_count + FallbackItems
       /\ p_pc \in {"loop", "fallback"} => IsPrefix(league_player_data, league_player_data')]_vars

C9_Witness ==
    /\ p_pc = "returned"
    /\ p_nfallbacks = 1
    /\ Len(player_retrieval_failures) = 1
    /\ player_retrieval_failures[1].failed_player_retrieval_index > p_fbstart
    /\ player_retrieval_failures[1].failed_player_retrieval_index < p_fbstart + FallbackItems - 1
    /\ Len(player_retrieval_successes) = FallbackItems - 1
    /\ \E k \in 0..Len(league_player_data) :
          SubSeq(league_player_data, k + 1, k + Len(player_retrieval_successes))
             = player_retrieval_successes

\* C10: over a collection served without failures, the result of the call
\* (limit 25, start 0) followed by the result of the call (no limit,
\* start 25) is the result of the call (no limit, start 0).
C10_PaginationIdempotence ==
    (\A key \in HistKeys : p_hist[key].set) =>
        p_hist[<<league_player_retrieval_limit, 0>>].ids
            \o p_hist[<<None, league_player_retrieval_limit>>].ids
        = p_hist[<<None, 0>>].ids

C10_Witness ==
    /\ \A key \in HistKeys : p_hist[key].set
    /\ p_total > league_player_retrieval_limit
    /\ p_hist[<<None, league_player_retrieval_limit>>].ids # <<>>
    /\ Len(p_hist[<<None, 0>>].ids) = p_total

(***************************************************************************)
(* C11.  get_league_players never returns more players than                *)
(* player_count_limit when a limit is given: whatever the start offset and *)
(* whatever mixture of window successes, window failures and per-player    *)
(* fallbacks occurred, a call that returns has collected at most           *)
(* player_count_limit players.                                             *)
(***************************************************************************)
C11_LimitRespected ==
    (p_pc = "returned" /\ HasLimit(player_count_limit))
        => Len(league_player_data) <= player_count_limit

RetrievedOffsets ==
    {player_retrieval_successes[i] : i \in DOMAIN player_retrieval_successes}
FailedOffsets ==
    {player_retrieval_failures[i].failed_player_retrieval_index :
        i \in DOMAIN player_retrieval_failures}

\* the last fallback went through all its single-item requests
FallbackCompleted ==
    /\ p_nfallbacks > 0
    /\ \A i \in DOMAIN p_fbouts : p_fbouts[i] # "http_error"

\* C23: shape of the partial-batch fallback: for a failed window starting at
\* offset w the fallback makes 25 single-item requests, at exactly the
\* offsets w, w+1, ..., w+24, in increasing order and each offset once, no
\* failing request starting a fallback of its own; afterwards pagination
\* goes on with a window at offset w+25.
C23_FallbackShape ==
    /\ [](FallbackCompleted =>
            /\ Len(player_retrieval_successes) + Len(player_retrieval_failures) = 25
            /\ RetrievedOffsets \cup FailedOffsets = p_fbstart..(p_fbstart + 24)
            /\ RetrievedOffsets \cap FailedOffsets = {}
            /\ \A i, j \in DOMAIN player_retrieval_successes :
                  i < j => player_retrieval_successes[i] < player_retrieval_successes[j]
            /\ \A i, j \in DOMAIN player_retrieval_failures :
                  i < j => player_retrieval_failures[i].failed_player_retrieval_index
                              < player_retrieval_failures[j].failed_player_retrieval_index
            /\ \A i \in DOMAIN player_retrieval_failures :
                  player_retrieval_failures[i].failed_player_retrieval_url
                      = [start |-> player_retrieval_failures[i].failed_player_retrieval_index,
                         count |-> 1])
    /\ [][(p_pc = "fallback" /\ p_pc' # "raised") =>
              /\ p_pc' = "loop"
              /\ p_fbstart' = league_player_count
              /\ league_player_count' = league_player_count + 25]_vars

C23_Witness ==
    /\ FallbackCompleted
    /\ p_pc = "loop"
    /\ p_fbstart = 25
    /\ league_player_count = 50
    /\ Len(player_retrieval_successes) = 1
    /\ Len(player_retrieval_failures) = 24

\* C21: get_league_players always terminates: every fetch returning, a call
\* that is under way eventually returns a list or raises, whatever the
\* upstream does, also when every window fails with DataNotFound.
C21_Terminates ==
    (p_pc \in {"loop", "fallback"}) ~> (p_pc \in {"returned", "raised"})

----------------------------------------------------------------------------
(* Properties of get_league_key and the operations built on it *)

\* C15: the league-key cache is write-once-if-absent: after a call of
\* get_league_key that returns a key, that key is in the cache
\* (self.league_key), and when an earlier call of get_league_key on the same
\* object already returned a key, the call returns that same key and makes
\* no query.
C15_WriteOnceIfAbsent ==
    (l_op = "get_league_key" /\ l_exc = "none") =>
        /\ league_key = l_key
        /\ l_earlier # NoKey => (l_queries = <<>> /\ l_key = l_earlier)

\* the query that resolves the game key of the league: the season lookup if
\* a season is given, else the metadata of the configured game_id, else the
\* metadata of the current game
ExpectedFetch ==
    IF l_season # None
    THEN [resource |-> "games", game |-> 0, season |-> l_season, path |-> <<"games">>]
    ELSE IF game_id # 0
    THEN [resource |-> "game", game |-> game_id, season |-> 0, path |-> <<"game">>]
    ELSE [resource |-> "game", game |-> 0, season |-> 0, path |-> <<"game">>]

ExpectedGameKey ==
    IF l_season # None THEN (IF l_season = 2019 THEN 390 ELSE 399)
    ELSE IF game_id # 0 THEN game_id
    ELSE 449

FetchOf(q) ==
    [resource |-> q.url.resource, game |-> q.url.key.game, season |-> q.url.arg,
     path |-> q.path]

\* C16: a player-stats operation (for season, by week, by date) called with
\* limit_to_league_stats=False makes exactly one query, rooted at the global
\* players resource with key-path [players, 0, player], and resolves no
\* league key; called with limit_to_league_stats=True its query is rooted at
\* league/{league_key}/players with key-path [league, players, 0, player].
C16_PlayerStatsRooting ==
    l_op \in {"season", "week", "date"} =>
        /\ ~l_limit =>
              /\ Len(l_queries) = 1
              /\ l_queries[1].url.resource = "players"
              /\ l_queries[1].url.key = NoKey
              /\ l_queries[1].url.arg = l_op
              /\ l_queries[1].path = <<"players", "0", "player">>
              /\ l_key = NoKey
        /\ l_limit =>
              /\ \A i \in DOMAIN l_queries :
                    \/ i < Len(l_queries) /\ FetchOf(l_queries[i]) = ExpectedFetch
                    \/ i = Len(l_queries) /\ l_key = NoKey
                          /\ FetchOf(l_queries[i]) = ExpectedFetch
                    \/ /\ i = Len(l_queries)
                       /\ l_key # NoKey
                       /\ l_queries[i].url.resource = "league"
                       /\ l_queries[i].url.key = l_key
                       /\ l_queries[i].url.tail = "players"
                       /\ l_queries[i].url.arg = l_op
                       /\ l_queries[i].path = <<"league", "players", "0", "player">>
              /\ l_key # NoKey =>
                    (l_queries # <<>> /\ Last(l_queries).url.resource = "league")

C16_Witness ==
    /\ l_op = "week"
    /\ ~l_limit
    /\ league_key = NoKey
    /\ ~offline
    /\ l_exc = "none"
    /\ l_ret = "object"
    /\ l_queries[1].url.resource = "players"

\* C17: with no league key in the cache, get_league_key makes exactly one
\* query, the season lookup if a season is given, else the metadata of the
\* configured game_id, else the metadata of the current game, and the key it
\* returns is {game_key}.l.{league_id} with the game key of that query; the
\* query of a team operation addresses the team by {league_key}.t.{team_id}.
C17_CompositeKeys ==
    /\ (l_op = "get_league_key" /\ l_cache0 = NoKey) =>
          /\ Len(l_queries) = 1
          /\ FetchOf(l_queries[1]) = ExpectedFetch
          /\ l_exc = "none" =>
                l_key = [game |-> ExpectedGameKey, league |-> LeagueId, team |-> 0]
    /\ (l_op = "get_team_info" /\ l_queries # <<>>
            /\ Last(l_queries).url.resource = "team") =>
          /\ Last(l_queries).url.key =
                [game |-> l_key.game, league |-> l_key.league, team |-> l_team]
          /\ l_team # 0
          /\ l_key # NoKey
          /\ l_cache0 = NoKey =>
                l_key = [game |-> ExpectedGameKey, league |-> LeagueId, team |-> 0]

C17_Witness ==
    /\ l_op = "get_league_key"
    /\ l_cache0 = NoKey
    /\ l_season = 2020
    /\ game_id # 0
    /\ l_exc = "none"
    /\ l_key = [game |-> 399, league |-> LeagueId, team |-> 0]

\* query raised DataNotFound out of get_response: the envelope was absent or
\* the upstream answered with an error payload
RaisedByGetResponse ==
    /\ q_pc = "done"
    /\ ~offline
    /\ q_exc = "DataNotFound"
    /\ (HasErrorPayload(q_response) \/ ~q_response.content)

\* query raised DataNotFound itself: the response was returned and the key
\* path yielded no data
RaisedByKeyPath ==
    /\ q_pc = "done"
    /\ ~offline
    /\ q_exc = "DataNotFound"
    /\ ~HasErrorPayload(q_response)
    /\ q_response.content

\* C24: a DataNotFound raised because the envelope is absent or the upstream
\* sent an error payload carries the request URL and no key-path payload; a
\* DataNotFound raised because the key path yields no data carries the URL
\* and the key path, which is not empty; and the handler of
\* get_league_players takes the exception for the end of the collection
\* exactly when it carries a payload, that is exactly in the second case.
C24_DataNotFoundContext ==
    /\ RaisedByGetResponse =>
          /\ q_err_url = q_url
          /\ q_payload = <<>>
          /\ \A limit \in Limits : ~EndsPagination(OutcomeOfPayload(q_payload), limit)
    /\ RaisedByKeyPath =>
          /\ q_err_url = q_url
          /\ q_payload = q_path
          /\ q_payload # <<>>
          /\ \A limit \in Limits : EndsPagination(OutcomeOfPayload(q_payload), limit)
    /\ (q_pc = "done" /\ q_exc = "DataNotFound") => (RaisedByGetResponse \/ RaisedByKeyPath)

C24_Witness ==
    /\ RaisedByKeyPath
    /\ q_url = "u2"
    /\ q_err_url = "u2"
    /\ q_payload = <<<<"league">>>>
    /\ q_response.status = 200

C24_WitnessEnvelope ==
    /\ RaisedByGetResponse
    /\ q_response.status = 500
    /\ q_response.error
    /\ q_err_url = "u2"
    /\ q_payload = <<>>

\* the current call of get_response ended on a response with a 4xx or 5xx
\* status (not the rate-limit status) whose body does not decode as JSON
EndedOnUndecodableError ==
    /\ pc = "raised"
    /\ resps # <<>>
    /\ ~Last(resps).decodes
    /\ RaisesForStatus(Last(resps).status)
    /\ ~IsRateLimited(Last(resps).status)

\* C25: a response with a non-success status and a body that does not decode
\* is handled like any other HTTP error: it takes one unit of the retry
\* budget and is retried while the budget lasts, so the call fails on such a
\* response only when the budget is used up.
C25_UndecodableRetried == EndedOnUndecodableError => (err = "http_error" /\ retries = 0)

\* the step is a call of get_league_key on an object whose league_key is set
CachedGetLeagueKeyStep ==
    /\ l_ncalls' = l_ncalls + 1
    /\ l_op' = "get_league_key"
    /\ league_key # NoKey

\* C26: whenever league_key is already set, get_league_key returns exactly
\* that value whatever season it is given, makes no query and so no fetch,
\* and leaves the whole state of the object as it was.
C26_ReadIfPresent ==
    /\ [][CachedGetLeagueKeyStep =>
             /\ l_exc' = "none"
             /\ l_ret' = "key"
             /\ l_key' = league_key
             /\ l_queries' = <<>>
             /\ UNCHANGED <<league_key, game_id, all_output_as_json_str, offline,
                            init_auths, respVars, queryVars, playerVars>>]_vars
    /\ []((l_op = "get_league_key" /\ l_cache0 # NoKey) => l_key = league_key)

C26_Witness ==
    /\ l_op = "get_league_key"
    /\ l_cache0 # NoKey
    /\ l_season = 2020
    /\ l_key = l_cache0
    /\ l_key # LeagueKey(GameKeyOfSeason[2020], LeagueId)
    /\ l_queries = <<>>
    /\ all_output_as_json_str

\* C27: executed_queries is an append-only log of the successful queries: a
\* call of query that returns a result appends exactly one record, with the
\* URL, the status code and the response of that call, at the end; a call
\* that raises (HTTP error, rate limit, DataNotFound for the envelope or for
\* the key path) or is made offline leaves the log as it was; and no call
\* removes or reorders the records already there.
C27_ExecutedQueriesLog ==
    [][(q_pc = "call" /\ q_pc' = "done") =>
          /\ IsPrefix(executed_queries, executed_queries')
          /\ (~offline /\ q_exc' = "none") =>
                /\ Len(executed_queries') = Len(executed_queries) + 1
                /\ Last(executed_queries').url = q_url
                /\ Last(executed_queries').response_status_code = q_response.status
                /\ Last(executed_queries').response = q_response
          /\ (offline \/ q_exc' \in {"HTTPError", "DataNotFound"}) =>
                executed_queries' = executed_queries]_vars

C27_Witness ==
    /\ q_pc = "done"
    /\ ~offline
    /\ q_exc = "none"
    /\ Len(executed_queries) = 2
    /\ executed_queries[1].url = "u1"
    /\ executed_queries[2].url = "u2"
    /\ executed_queries[2].response_status_code = 200

\* a failed call after a recorded one: the log still holds that record only
C27_WitnessRaised ==
    /\ q_pc = "done"
    /\ q_exc = "HTTPError"
    /\ q_response.status = RATE_LIMIT_STATUS
    /\ Len(executed_queries) = 1

\* the step is a call of get_game_key_by_season
GetGameKeyBySeasonStep ==
    /\ l_ncalls' = l_ncalls + 1
    /\ l_op' = "get_game_key_by_season"

\* C28: get_game_key_by_season leaves all_output_as_json_str as it was,
\* whether it returns the game key or the query it makes raises.
C28_FlagRestored ==
    [][GetGameKeyBySeasonStep => all_output_as_json_str' = all_output_as_json_str]_vars

\* the step is a call of query on an object constructed with offline=True
OfflineQueryStep ==
    /\ offline
    /\ q_pc = "call"
    /\ q_pc' = "done"

\* C29: an object constructed with offline=True has not authenticated, and
\* every call of query on it makes no fetch, returns None, raises nothing,
\* and leaves the retry budget, the back-off counter, league_key and
\* executed_queries as they were.
C29_OfflineNoTraffic ==
    /\ [](offline => init_auths = 0)
    /\ [][OfflineQueryStep =>
             /\ q_fetches' = q_fetches
             /\ q_result' = JNull
             /\ q_exc' = "none"
             /\ UNCHANGED <<retries, backoff, league_key, executed_queries,
                            fetched, auths>>]_vars

C29_Witness ==
    /\ offline
    /\ init_auths = 0
    /\ q_pc = "done"
    /\ q_response = OkResponse
    /\ q_doc = JDict(<<Entry("league", JStr(1))>>)
    /\ q_path = <<<<"league">>>>
    /\ q_result = JNull
    /\ q_exc = "none"
    /\ q_fetches = 0
    /\ Len(executed_queries) = 1

\* get_league_key was called online without a cached key, and the upstream
\* answered its request
ResolvedOnline ==
    /\ l_op = "get_league_key"
    /\ l_cache0 = NoKey
    /\ ~offline
    /\ l_exc \notin {"DataNotFound", "HTTPError"}

\* C30: the resolution of the league key does not depend on
\* all_output_as_json_str: whenever the upstream answers the request of
\* get_league_key, the call returns {game_key}.l.{league_id} with the game key
\* of its branch (season given, game_id configured, neither), and fails in no
\* case in which it returns with the flag off.
C30_FlagIndependent ==
    ResolvedOnline => (l_exc = "none" /\ l_key = LeagueKey(ExpectedGameKey, LeagueId))

\* the same for the calls on which the flag plays no part: it is off, or a
\* season is given and get_game_key_by_season clears it for its query
C30_FlagOff ==
    (ResolvedOnline /\ (~all_output_as_json_str \/ l_season # None)) =>
        (l_exc = "none" /\ l_key = LeagueKey(ExpectedGameKey, LeagueId))

====
